---- MODULE Spec2Model ----
(***************************************************************************)
(* Model of the periodic-task worker (package worker): the Cron / Once /   *)
(* Remove registration API, the scan loop, the dispatcher's processed      *)
(* counter and the archive reaper, running as several goroutines and       *)
(* replicas against one Redis hash (the Store), one NX lock with a lease   *)
(* and one asynq queue.  Every Redis or asynq call is one atomic step.     *)
(***************************************************************************)
EXTENDS Integers, Sequences, FiniteSets, TLC

VARIABLES
    now,      \* wall clock, unix seconds
    store,    \* the Redis hash redisPeriodKey: uid -> serialized periodTask
    queue,    \* the asynq queue of the group: task id -> task
    lock,     \* the Redis key redisPeriodKey.lock
    pc,       \* position of every goroutine
    arg,      \* uid the goroutine's call works on
    m,        \* scan: result of HGetAll
    todo,     \* scan: map entries not yet visited by the range loop
    pipe,     \* scan: HSet commands queued on the pipeline
    got,      \* processed: result of HGet
    list,     \* clearArchived: result of ListArchivedTasks
    wk,       \* New: the worker under construction and the copy its handler took
    events,   \* number of API calls, injected failures and dispatched tasks so far
    invalid,  \* history: the last registration called with invalid arguments
    subs,     \* history: uid -> the processAt of every accepted scan submission
    fresh,    \* history: per goroutine, the <<uid, processAt>> that scans of other
              \*   goroutines got accepted while its own scan tick was running
    tick,     \* history: per goroutine, what its current scan tick did per uid
    rej,      \* history: uid -> processAt of a rejected submission not yet superseded
    removed   \* history: uid -> "", "deleted" (HDel done) or "returned" (Remove returned)

vars == <<wk, now, store, queue, lock, pc, arg, m, todo, pipe, got, list, events,
          invalid, subs, fresh, tick, rej, removed>>

----------------------------------------------------------------------------
(* Bounds of the model *)

\* the clock runs from StartTime to MaxTime
StartTime == 10
MaxTime == 20
MaxEvents == 3

Procs == {"p1", "p2"}
Uids == {"a", "b"}
\* the uid the callers of the scheduler register and remove
SchedUids == {"a"}
Payloads == {"p1"}
None == "none"

----------------------------------------------------------------------------
(* Cron expressions, by the period at which they fire; "bad" does not parse. *)

SchedExprs == {"*/5 * * * * *", "*/15 * * * * *"}
\* every 30 seconds, every 10 minutes, every hour, every 2 hours
SlowExprs == {"*/30 * * * * *", "0 */10 * * * *", "0 0 * * * *", "0 0 */2 * * *"}
\* every 20 seconds, every 15 minutes
OtherExprs == {"*/20 * * * * *", "0 */15 * * * *"}
ValidExprs == SchedExprs \cup SlowExprs \cup OtherExprs
Exprs == SchedExprs \cup {"bad"}

Period(expr) ==
    CASE expr = "*/5 * * * * *" -> 5
      [] expr = "*/15 * * * * *" -> 15
      [] expr = "*/20 * * * * *" -> 20
      [] expr = "*/30 * * * * *" -> 30
      [] expr = "0 */10 * * * *" -> 600
      [] expr = "0 */15 * * * *" -> 900
      [] expr = "0 0 * * * *" -> 3600
      [] expr = "0 0 */2 * * *" -> 7200

\* the clock is observed at the instants the finest expression fires
TickSecs == Period("*/5 * * * * *")

\* cronexpr.Parse succeeds
Parses(expr) == expr \in ValidExprs

\* cronexpr Expression.Next: the first occurrence strictly after t
ExprNext(expr, t) == ((t \div Period(expr)) + 1) * Period(expr)

\* getNext(expr, timestamp): [next, err]
getNext(expr, timestamp) ==
    IF ~Parses(expr)
    THEN [next |-> 0, err |-> TRUE]
    ELSE [next |-> ExprNext(expr, IF timestamp > 0 THEN timestamp ELSE now),
          err |-> FALSE]

----------------------------------------------------------------------------
(* periodTask and its JSON encoding.  The encoded form is the sequence of
   the eight fields in declaration order; the empty sequence is the empty
   string, which is also what a failed HGet hands back. *)

ZeroTask == [expr |-> "", name |-> "", uid |-> "", payload |-> "", next |-> 0,
             processed |-> 0, maxRetry |-> 0, timeout |-> 0]

\* periodTask.String: json.Marshal of the struct
String(p) == <<p.expr, p.name, p.uid, p.payload, p.next, p.processed,
               p.maxRetry, p.timeout>>

\* periodTask.FromString on the receiver p: json.Unmarshal, whose error is
\* dropped, leaves p as it was when str is not a JSON object
FromString(p, str) ==
    IF Len(str) = 8
    THEN [expr |-> str[1], name |-> str[2], uid |-> str[3], payload |-> str[4],
          next |-> str[5], processed |-> str[6], maxRetry |-> str[7],
          timeout |-> str[8]]
    ELSE p

\* redis.Nil: the hash has no such field
Nil == << >>

Decode(str) == FromString(ZeroTask, str)

----------------------------------------------------------------------------
(* Options of the worker and of a registration *)

\* Options.maxRetry of the group
GroupMaxRetry == 1
\* RunOptions.maxRetry and RunOptions.timeout given by the callers
RunMaxRetry == 0
RunTimeout == 0
\* RunOptions.category
Category == "job"

----------------------------------------------------------------------------
(* The asynq queue of the group.  A task id is in at most one state; an id
   that is present in any state makes Enqueue fail with a task id conflict. *)

NoTask == [type |-> "", payload |-> "", at |-> 0, state |-> "none",
           retention |-> 0, retried |-> 0, maxRetry |-> 0, lastFailedAt |-> 0,
           doneAt |-> 0]

\* asynq.NewTask with its options, as Client.Enqueue stores it
NewTask(type, payload, at, retention, maxRetry) ==
    [type |-> type, payload |-> payload, at |-> at, state |-> "scheduled",
     retention |-> retention, retried |-> 0, maxRetry |-> maxRetry,
     lastFailedAt |-> 0, doneAt |-> 0]

\* Client.Enqueue accepts the task
Accepts(id, type) == id \in Uids /\ type # "" /\ queue[id].state = "none"

\* Inspector.DeleteTask succeeds: the task exists and is not being processed
Deletable(id) == queue[id].state \notin {"none", "active"}

----------------------------------------------------------------------------
(* The NX lock: SET key NX EX expiration, and DEL key on Unlock *)

LockExpiration == 10

FreeLock == [held |-> FALSE, by |-> None, until |-> 0]

\* a lock key that never expires
LockFreeNoLease == ~lock.held

\* the lock key does not exist (never set, deleted, or its lease ran out)
LockFree == ~lock.held \/ now >= lock.until

\* NxLock.Lock by goroutine p succeeded
Locked(p) == [held |-> TRUE, by |-> p, until |-> now + LockExpiration]

\* NxLock.Unlock
Unlocked == FreeLock

----------------------------------------------------------------------------

EmptyMap == [u \in Uids |-> Nil]
NoMarks == [u \in Uids |-> ""]
NoRejects == [u \in Uids |-> 0]
NoResult == [t |-> Nil, e |-> "nil"]
NoList == [u \in Uids |-> NoTask]

\* the fields of Worker that New assigns, in the order of its assignments
WorkerFields == <<"ops", "redis", "redisOpt", "lock", "client", "inspector">>
AllFields == {WorkerFields[i] : i \in 1..Len(WorkerFields)}

\* Options.redisUri: missing, not a redis URI, or a redis URI
RedisUris == {"", "bad", "redis://store"}

\* a worker New has returned, with the copy its handler goroutine serves with
ReadyWorker ==
    [uri |-> "redis://store", Error |-> "", at |-> "returned", set |-> AllFields,
     copied |-> TRUE, htk |-> AllFields, out |-> ""]

NoCall == [op |-> "", uid |-> "", expr |-> "", err |-> "", n |-> 0]

Init ==
    /\ now = StartTime
    /\ store = EmptyMap
    /\ queue = [u \in Uids |-> NoTask]
    /\ lock = FreeLock
    /\ pc = [p \in Procs |-> "idle"]
    /\ arg = [p \in Procs |-> ""]
    /\ m = [p \in Procs |-> EmptyMap]
    /\ todo = [p \in Procs |-> {}]
    /\ pipe = [p \in Procs |-> EmptyMap]
    /\ got = [p \in Procs |-> NoResult]
    /\ list = [p \in Procs |-> NoList]
    /\ wk = ReadyWorker
    /\ events = 0
    /\ invalid = NoCall
    /\ subs = [u \in Uids |-> {}]
    /\ fresh = [p \in Procs |-> {}]
    /\ tick = [p \in Procs |-> NoMarks]
    /\ rej = NoRejects
    /\ removed = [u \in Uids |-> ""]

scanVars == <<m, todo, pipe, tick>>
procVars == <<pc, arg, got>>
histVars == <<invalid, subs, fresh, rej, removed>>

----------------------------------------------------------------------------
(* History bookkeeping shared by the actions *)

NextOf(str) == Decode(str).next

\* a rejected occurrence stays outstanding until the stored next of its uid changes
RejAfter(newStore, r) ==
    [u \in Uids |-> IF NextOf(newStore[u]) = NextOf(store[u]) THEN r[u] ELSE 0]

\* Remove ends the task of a uid: its accepted occurrences are forgotten
Forget(h, uid) == [h EXCEPT ![uid] = {}]
ForgetFresh(uid) == [q \in Procs |-> {x \in fresh[q] : x[1] # uid}]

\* one more API call, injected failure or dispatched task
Event == events < MaxEvents /\ events' = events + 1

----------------------------------------------------------------------------
(* Registration API *)

\* the periodTask literal built by Cron
CronTask(uid, expr, payload, next) ==
    [expr |-> expr, name |-> Category \o ".cron", uid |-> uid,
     payload |-> payload, next |-> next, processed |-> 0,
     maxRetry |-> RunMaxRetry, timeout |-> RunTimeout]

\* a Cron that does not look at the error of getNext
CronCheckUidOnly(uid, expr) == IF uid = "" THEN "ErrUuidNil" ELSE ""

\* the error Cron returns before it touches the Store, "" when it goes on
CronCheck(uid, expr) ==
    IF uid = "" THEN "ErrUuidNil"
    ELSE IF getNext(expr, 0).err THEN "ErrExprInvalid"
    ELSE ""

\* what Cron writes to the Store: nothing when the check fails
CronStore(uid, expr, payload) ==
    IF CronCheck(uid, expr) # ""
    THEN store
    ELSE [store EXCEPT ![uid] =
             String(CronTask(uid, expr, payload, getNext(expr, 0).next))]

\* Worker.Cron; HSet succeeds
Cron(uid, expr, payload) ==
    /\ Event
    /\ store' = CronStore(uid, expr, payload)
    /\ rej' = RejAfter(store', rej)
    /\ invalid' = IF uid = "" \/ ~Parses(expr)
                  THEN [op |-> "Cron", uid |-> uid, expr |-> expr,
                        err |-> CronCheck(uid, expr), n |-> events']
                  ELSE invalid
    /\ removed' = IF store' # store
                  THEN [u \in Uids |-> IF u = uid THEN "" ELSE removed[u]]
                  ELSE removed
    /\ UNCHANGED <<wk, now, list, queue, lock, procVars, scanVars, subs, fresh>>

\* Worker.Cron whose HSet fails: ErrSaveCron is returned
CronSaveFails(uid, expr) ==
    /\ Event
    /\ CronCheck(uid, expr) = ""
    /\ UNCHANGED <<wk, now, list, store, queue, lock, procVars, scanVars, histVars>>

\* the error Once returns before it touches the queue, "" when it goes on
OnceCheck(uid) == IF uid = "" THEN "ErrUuidNil" ELSE ""

\* the task Once enqueues; delay is the ProcessIn / ProcessAt offset
OnceTask(payload, delay) ==
    NewTask(Category \o ".once", payload, now + delay, 0,
            IF RunMaxRetry > 0 THEN RunMaxRetry ELSE GroupMaxRetry)

\* what Once leaves in the queue: unchanged when the check fails or the
\* task id is taken
OnceQueue(uid, payload, delay) ==
    IF OnceCheck(uid) = "" /\ Accepts(uid, Category \o ".once")
    THEN [queue EXCEPT ![uid] = OnceTask(payload, delay)]
    ELSE queue

\* Worker.Once
Once(uid, payload, delay) ==
    /\ Event
    /\ queue' = OnceQueue(uid, payload, delay)
    /\ invalid' = IF uid = ""
                  THEN [op |-> "Once", uid |-> uid, expr |-> "",
                        err |-> OnceCheck(uid), n |-> events']
                  ELSE invalid
    /\ UNCHANGED <<wk, now, list, store, lock, procVars, scanVars, subs, fresh, rej,
                   removed>>

----------------------------------------------------------------------------
(* Worker.Remove *)

RemoveCall(p, uid) ==
    /\ pc[p] = "idle"
    /\ Event
    /\ pc' = [pc EXCEPT ![p] = "rm_lock"]
    /\ arg' = [arg EXCEPT ![p] = uid]
    /\ UNCHANGED <<wk, now, list, store, queue, lock, got, scanVars, histVars>>

\* one successful round of the polling loop; a failed round changes nothing
RemoveLock(p) ==
    /\ pc[p] = "rm_lock"
    /\ LockFree
    /\ lock' = Locked(p)
    /\ pc' = [pc EXCEPT ![p] = "rm_hdel"]
    /\ UNCHANGED <<wk, now, list, store, queue, arg, got, events, scanVars, histVars>>

RemoveHDel(p) ==
    /\ pc[p] = "rm_hdel"
    /\ store' = [store EXCEPT ![arg[p]] = Nil]
    /\ rej' = RejAfter(store', rej)
    /\ removed' = [removed EXCEPT ![arg[p]] = "deleted"]
    /\ subs' = Forget(subs, arg[p])
    /\ fresh' = ForgetFresh(arg[p])
    /\ pc' = [pc EXCEPT ![p] = "rm_del"]
    /\ UNCHANGED <<wk, now, list, queue, lock, arg, got, events, scanVars, invalid>>

RemoveDeleteTask(p) ==
    /\ pc[p] = "rm_del"
    /\ IF Deletable(arg[p])
       THEN /\ queue' = [queue EXCEPT ![arg[p]] = NoTask]
            /\ got' = [got EXCEPT ![p] = [t |-> Nil, e |-> ""]]
       ELSE /\ got' = [got EXCEPT ![p] = [t |-> Nil, e |-> "ErrDeleteTask"]]
            /\ UNCHANGED queue
    /\ subs' = Forget(subs, arg[p])
    /\ fresh' = ForgetFresh(arg[p])
    /\ pc' = [pc EXCEPT ![p] = "rm_unlock"]
    /\ UNCHANGED <<wk, now, list, store, lock, arg, events, scanVars, invalid, rej, removed>>

\* the deferred Unlock, then the return
RemoveUnlock(p) ==
    /\ pc[p] = "rm_unlock"
    /\ lock' = Unlocked
    /\ removed' = [removed EXCEPT ![arg[p]] =
                      IF @ = "deleted" THEN "returned" ELSE @]
    /\ pc' = [pc EXCEPT ![p] = "idle"]
    /\ arg' = [arg EXCEPT ![p] = ""]
    /\ got' = [got EXCEPT ![p] = NoResult]
    /\ UNCHANGED <<wk, now, list, store, queue, events, scanVars, invalid, subs, fresh, rej>>

----------------------------------------------------------------------------
(* Worker.scan *)

\* positions of a goroutine inside a scan tick that holds the lock
ScanPcs == {"scan_load", "scan_loop", "scan_unlock"}

\* the retention option of a scan submission, 0 when none is attached
Retention(diff) ==
    IF diff > 10
    THEN IF diff > 600 THEN 600 ELSE diff \div 3
    ELSE 0

\* next, _ := getNext(item.Expr, item.Next)
ScanNext(item) == getNext(item.expr, item.next).next

\* asynq.ProcessAt(time.Unix(item.Next, 0))
ScanProcessAt(item) == item.next

\* the task scan builds for a record, with its options
ScanTask(item) ==
    NewTask(item.name, item.payload, ScanProcessAt(item),
            Retention(ScanNext(item) - item.next),
            IF item.maxRetry > 0 THEN item.maxRetry ELSE GroupMaxRetry)

\* a scan that takes the following occurrence from the clock
ScanAdvanceFromNow(item) == [item EXCEPT !.next = getNext(item.expr, 0).next]

\* the record scan queues on the pipeline after a successful Enqueue
ScanAdvance(item) == [item EXCEPT !.next = ScanNext(item)]

\* a scan that queues the record whatever Enqueue returned
ScanSavesAlways(err) == TRUE

\* whether scan queues the record, given that Enqueue returned an error or not
ScanSaves(err) == ~err

\* lock.Lock() succeeded; when it fails the tick returns and nothing changes
ScanLock(p) ==
    /\ pc[p] = "idle"
    /\ LockFree
    /\ lock' = Locked(p)
    /\ pc' = [pc EXCEPT ![p] = "scan_load"]
    /\ UNCHANGED <<wk, now, list, store, queue, arg, got, events, scanVars, histVars>>

\* HGetAll and the empty pipeline
ScanLoad(p) ==
    /\ pc[p] = "scan_load"
    /\ m' = [m EXCEPT ![p] = store]
    /\ todo' = [todo EXCEPT ![p] = {u \in Uids : store[u] # Nil}]
    /\ pipe' = [pipe EXCEPT ![p] = EmptyMap]
    /\ tick' = [tick EXCEPT ![p] = NoMarks]
    /\ pc' = [pc EXCEPT ![p] = "scan_loop"]
    /\ UNCHANGED <<wk, now, list, store, queue, lock, arg, got, events, histVars>>

\* one iteration of the range loop, for map entry u; err is Enqueue's error
ScanIter(p, u, err) ==
    LET item == Decode(m[p][u]) IN
    /\ todo' = [todo EXCEPT ![p] = @ \ {u}]
    /\ IF ~err
       THEN /\ queue' = [queue EXCEPT ![item.uid] = ScanTask(item)]
            /\ subs' = [subs EXCEPT ![item.uid] = @ \cup {queue'[item.uid].at}]
            /\ fresh' = [q \in Procs |->
                            IF q # p /\ pc[q] \in ScanPcs
                            THEN fresh[q] \cup {<<item.uid, queue'[item.uid].at>>}
                            ELSE fresh[q]]
            /\ tick' = [tick EXCEPT ![p][u] = "ok"]
            /\ UNCHANGED rej
       ELSE /\ tick' = [tick EXCEPT ![p][u] = "rej"]
            /\ rej' = [rej EXCEPT ![u] = IF NextOf(m[p][u]) = NextOf(store[u])
                                         THEN ScanProcessAt(item) ELSE @]
            /\ UNCHANGED <<queue, subs, fresh>>
    /\ pipe' = IF ScanSaves(err)
               THEN [pipe EXCEPT ![p][u] = String(ScanAdvance(item))]
               ELSE pipe
    /\ UNCHANGED <<wk, now, list, store, lock, procVars, m, invalid, removed>>

\* the queue decides: accepted, or rejected for a task id conflict
ScanEnqueue(p, u) ==
    /\ pc[p] = "scan_loop"
    /\ u \in todo[p]
    /\ LET item == Decode(m[p][u]) IN
       ScanIter(p, u, ~Accepts(item.uid, item.name))
    /\ UNCHANGED events

\* Enqueue fails for another reason (the queue engine is unreachable)
ScanEnqueueFails(p, u) ==
    /\ pc[p] = "scan_loop"
    /\ u \in todo[p]
    /\ Event
    /\ ScanIter(p, u, TRUE)

\* p.Exec(ctx) writes every queued record
ScanExec(p) ==
    /\ pc[p] = "scan_loop"
    /\ todo[p] = {}
    /\ store' = [u \in Uids |-> IF pipe[p][u] # Nil THEN pipe[p][u] ELSE store[u]]
    /\ rej' = RejAfter(store', rej)
    /\ pc' = [pc EXCEPT ![p] = "scan_unlock"]
    /\ UNCHANGED <<wk, now, list, queue, lock, arg, got, events, scanVars, invalid, subs,
                   fresh, removed>>

\* p.Exec(ctx) fails; its error is dropped
ScanExecFails(p) ==
    /\ pc[p] = "scan_loop"
    /\ todo[p] = {}
    /\ \E u \in Uids : pipe[p][u] # Nil
    /\ Event
    /\ pc' = [pc EXCEPT ![p] = "scan_unlock"]
    /\ UNCHANGED <<wk, now, list, store, queue, lock, arg, got, scanVars, histVars>>

\* the deferred Unlock
ScanUnlock(p) ==
    /\ pc[p] = "scan_unlock"
    /\ lock' = Unlocked
    /\ pc' = [pc EXCEPT ![p] = "idle"]
    /\ m' = [m EXCEPT ![p] = EmptyMap]
    /\ pipe' = [pipe EXCEPT ![p] = EmptyMap]
    /\ tick' = [tick EXCEPT ![p] = NoMarks]
    /\ fresh' = [fresh EXCEPT ![p] = {}]
    /\ UNCHANGED <<wk, now, list, store, queue, arg, got, events, todo, invalid, subs, rej,
                   removed>>

----------------------------------------------------------------------------
(* The dispatcher: periodTaskHandler.ProcessTask and Worker.processed *)

\* the asynq server hands a due task to ProcessTask, which runs the handler
\* or the callback and then calls processed(uid)
ProcessTask(p, u) ==
    /\ pc[p] = "idle"
    /\ queue[u].state \in {"scheduled", "retry"}
    /\ now >= queue[u].at
    /\ Event
    /\ queue' = [queue EXCEPT ![u].state = "active"]
    /\ pc' = [pc EXCEPT ![p] = "pt_lock"]
    /\ arg' = [arg EXCEPT ![p] = u]
    /\ UNCHANGED <<wk, now, list, store, lock, got, scanVars, histVars>>

\* one successful round of the polling loop; a failed round changes nothing
ProcessedLock(p) ==
    /\ pc[p] = "pt_lock"
    /\ LockFree
    /\ lock' = Locked(p)
    /\ pc' = [pc EXCEPT ![p] = "pt_get"]
    /\ UNCHANGED <<wk, now, list, store, queue, arg, got, events, scanVars, histVars>>

\* HGet answers: the value, or redis.Nil
ProcessedGet(p) ==
    /\ pc[p] = "pt_get"
    /\ got' = [got EXCEPT ![p] =
                  [t |-> store[arg[p]],
                   e |-> IF store[arg[p]] = Nil THEN "nil" ELSE ""]]
    /\ pc' = [pc EXCEPT ![p] = "pt_set"]
    /\ UNCHANGED <<wk, now, list, store, queue, lock, arg, events, scanVars, histVars>>

\* HGet fails with an error other than redis.Nil
ProcessedGetFails(p) ==
    /\ pc[p] = "pt_get"
    /\ Event
    /\ got' = [got EXCEPT ![p] = [t |-> Nil, e |-> "err"]]
    /\ pc' = [pc EXCEPT ![p] = "pt_set"]
    /\ UNCHANGED <<wk, now, list, store, queue, lock, arg, scanVars, histVars>>

\* e == nil || e != redis.Nil
ProcessedWrites(e) == e = "" \/ e # "nil"

\* item.FromString(t); item.Processed++
ProcessedItem(t) == [Decode(t) EXCEPT !.processed = @ + 1]

ProcessedSet(p) ==
    /\ pc[p] = "pt_set"
    /\ store' = IF ProcessedWrites(got[p].e)
                THEN [store EXCEPT ![arg[p]] = String(ProcessedItem(got[p].t))]
                ELSE store
    /\ rej' = RejAfter(store', rej)
    /\ pc' = [pc EXCEPT ![p] = "pt_unlock"]
    /\ UNCHANGED <<wk, now, list, queue, lock, arg, got, events, scanVars, invalid, subs,
                   fresh, removed>>

\* the deferred Unlock
ProcessedUnlock(p) ==
    /\ pc[p] = "pt_unlock"
    /\ lock' = Unlocked
    /\ got' = [got EXCEPT ![p] = NoResult]
    /\ pc' = [pc EXCEPT ![p] = "pt_ret"]
    /\ UNCHANGED <<wk, now, list, store, queue, arg, events, scanVars, histVars>>

\* what the asynq server does with the task when ProcessTask returns: nil
\* removes it (or keeps it as completed for its retention), an error retries
\* or archives it
Returned(t, failed) ==
    IF ~failed
    THEN IF t.retention > 0
         THEN [t EXCEPT !.state = "completed", !.doneAt = now]
         ELSE NoTask
    ELSE IF t.retried >= t.maxRetry
         THEN [t EXCEPT !.state = "archived", !.lastFailedAt = now]
         ELSE [t EXCEPT !.state = "retry", !.retried = @ + 1,
                        !.lastFailedAt = now]

ProcessTaskReturns(p, failed) ==
    /\ pc[p] = "pt_ret"
    /\ queue' = [queue EXCEPT ![arg[p]] = Returned(@, failed)]
    /\ pc' = [pc EXCEPT ![p] = "idle"]
    /\ arg' = [arg EXCEPT ![p] = ""]
    /\ UNCHANGED <<wk, now, list, store, lock, got, events, scanVars, histVars>>

\* the retention of a completed task runs out
Expire(u) ==
    /\ queue[u].state = "completed"
    /\ now >= queue[u].doneAt + queue[u].retention
    /\ queue' = [queue EXCEPT ![u] = NoTask]
    /\ UNCHANGED <<wk, now, list, store, lock, procVars, events, scanVars, histVars>>

\* time passes
Tick ==
    /\ now + TickSecs <= MaxTime
    /\ now' = now + TickSecs
    /\ UNCHANGED <<wk, store, queue, lock, list, procVars, events, scanVars, histVars>>

----------------------------------------------------------------------------
(* clearArchived: one run lists the archived tasks of the group and deletes
   the ones it flags.  The list is a snapshot; HGet, the clock and DeleteTask
   are read and applied while other goroutines run. *)

\* the instant the archived tasks of a reaper run last failed
ArchivedAt == 20000

Minutes(n) == 60 * n
Hours(n) == 3600 * n

\* a loop that passes over no item
ClearSkipsNever(item) == FALSE

\* a loop that passes over the items that never failed
ClearSkipsUnfailed(item) == item.lastFailedAt = 0 /\ item.retried < item.maxRetry

\* !last.IsZero() && item.Retried < item.MaxRetry: the item is passed over
ClearSkips(item) == item.lastFailedAt # 0 /\ item.retried < item.maxRetry

\* strings.HasSuffix(item.Type, ".cron")
IsCron(item) == item.type = Category \o ".cron"

\* next - task.Next for the record read back from the hash
ClearDiff(t) ==
    LET task == FromString(ZeroTask, t)
    IN  getNext(task.expr, task.next).next - task.next

\* the time added to last for a period task, by diff
CronGrace(diff) ==
    IF diff <= 60 THEN Minutes(5)
    ELSE IF diff <= 600 THEN Minutes(30)
    ELSE IF diff <= 3600 THEN Hours(2)
    ELSE Hours(5)

\* flag of a ".cron" item: set only inside e == nil || e != redis.Nil
ClearFlagCron(last, t, e) ==
    IF e = "" \/ e # "nil"
    THEN now > last + CronGrace(ClearDiff(t))
    ELSE FALSE

\* a flag that is set from the end of the fifth minute on
ClearFlagOnceAtLeast(last) == now >= last + Minutes(5)

\* flag of any other item: carbon.Now().Gt(last.AddMinutes(5))
ClearFlagOnce(last) == now > last + Minutes(5)

\* Inspector.DeleteTask, its error dropped
ClearDeleted(uid) ==
    IF Deletable(uid) THEN [queue EXCEPT ![uid] = NoTask] ELSE queue

\* Inspector.ListArchivedTasks
ClearList(p) ==
    /\ pc[p] = "idle"
    /\ list' = [list EXCEPT ![p] =
                   [u \in Uids |-> IF queue[u].state = "archived"
                                   THEN queue[u] ELSE NoTask]]
    /\ todo' = [todo EXCEPT ![p] = {u \in Uids : queue[u].state = "archived"}]
    /\ pc' = [pc EXCEPT ![p] = "ca_loop"]
    /\ UNCHANGED <<wk, now, store, queue, lock, arg, got, events, m, pipe, tick,
                   histVars>>

\* the loop passes over an item that still has retries
ClearSkip(p, u) ==
    /\ pc[p] = "ca_loop"
    /\ u \in todo[p]
    /\ ClearSkips(list[p][u])
    /\ todo' = [todo EXCEPT ![p] = @ \ {u}]
    /\ UNCHANGED <<wk, now, list, store, queue, lock, procVars, events, m, pipe,
                   tick, histVars>>

\* an item that is not a period task: flag and DeleteTask
ClearOnce(p, u) ==
    /\ pc[p] = "ca_loop"
    /\ u \in todo[p]
    /\ ~ClearSkips(list[p][u])
    /\ ~IsCron(list[p][u])
    /\ queue' = IF ClearFlagOnce(list[p][u].lastFailedAt)
                THEN ClearDeleted(u) ELSE queue
    /\ todo' = [todo EXCEPT ![p] = @ \ {u}]
    /\ UNCHANGED <<wk, now, list, store, lock, procVars, events, m, pipe, tick,
                   histVars>>

\* a period task: HGet of its record
ClearGet(p, u) ==
    /\ pc[p] = "ca_loop"
    /\ u \in todo[p]
    /\ ~ClearSkips(list[p][u])
    /\ IsCron(list[p][u])
    /\ got' = [got EXCEPT ![p] =
                  [t |-> store[u], e |-> IF store[u] = Nil THEN "nil" ELSE ""]]
    /\ arg' = [arg EXCEPT ![p] = u]
    /\ pc' = [pc EXCEPT ![p] = "ca_flag"]
    /\ UNCHANGED <<wk, now, list, store, queue, lock, events, scanVars, histVars>>

\* HGet fails with an error other than redis.Nil
ClearGetFails(p, u) ==
    /\ pc[p] = "ca_loop"
    /\ u \in todo[p]
    /\ ~ClearSkips(list[p][u])
    /\ IsCron(list[p][u])
    /\ got' = [got EXCEPT ![p] = [t |-> Nil, e |-> "err"]]
    /\ arg' = [arg EXCEPT ![p] = u]
    /\ pc' = [pc EXCEPT ![p] = "ca_flag"]
    /\ UNCHANGED <<wk, now, list, store, queue, lock, events, scanVars, histVars>>

\* a period task: flag and DeleteTask
ClearCron(p) ==
    /\ pc[p] = "ca_flag"
    /\ queue' = IF ClearFlagCron(list[p][arg[p]].lastFailedAt, got[p].t, got[p].e)
                THEN ClearDeleted(arg[p]) ELSE queue
    /\ todo' = [todo EXCEPT ![p] = @ \ {arg[p]}]
    /\ arg' = [arg EXCEPT ![p] = ""]
    /\ got' = [got EXCEPT ![p] = NoResult]
    /\ pc' = [pc EXCEPT ![p] = "ca_loop"]
    /\ UNCHANGED <<wk, now, list, store, lock, events, m, pipe, tick, histVars>>

\* the loop is over
ClearDone(p) ==
    /\ pc[p] = "ca_loop"
    /\ todo[p] = {}
    /\ list' = [list EXCEPT ![p] = NoList]
    /\ pc' = [pc EXCEPT ![p] = "idle"]
    /\ UNCHANGED <<wk, now, store, queue, lock, arg, got, events, scanVars,
                   histVars>>

\* the instants around the ends of the four waiting times
ReaperTimes ==
    {ArchivedAt + g + d :
        g \in {Minutes(5), Minutes(30), Hours(2), Hours(5)}, d \in {0, 1}}

\* time passes between and during the runs
Elapse(t) ==
    /\ t > now
    /\ now' = t
    /\ UNCHANGED <<wk, store, queue, lock, list, procVars, events, scanVars,
                   histVars>>

\* a task of the group that failed at ArchivedAt and was archived
Archived(type, payload, retried) ==
    [NewTask(type, payload, ArchivedAt, 0, GroupMaxRetry)
        EXCEPT !.state = "archived", !.retried = retried,
               !.lastFailedAt = ArchivedAt]

ArchivedTasks ==
    {Archived(Category \o k, pl, r) :
        k \in {".cron", ".once"}, pl \in Payloads, r \in 0..GroupMaxRetry}

\* the records Cron would have written at ArchivedAt
ReaperRecords(u) ==
    {String(CronTask(u, e, pl, ExprNext(e, ArchivedAt))) :
        e \in SlowExprs, pl \in Payloads}

\* the reaper starts on a queue that holds archived tasks, with or without
\* a record in the hash
InitReaper ==
    /\ now = ArchivedAt
    /\ store \in {f \in [Uids -> UNION {ReaperRecords(u) : u \in Uids} \cup {Nil}] :
                    \A u \in Uids : f[u] = Nil \/ f[u] \in ReaperRecords(u)}
    /\ queue \in [Uids -> ArchivedTasks \cup {NoTask}]
    /\ lock = FreeLock
    /\ pc = [p \in Procs |-> "idle"]
    /\ arg = [p \in Procs |-> ""]
    /\ m = [p \in Procs |-> EmptyMap]
    /\ todo = [p \in Procs |-> {}]
    /\ pipe = [p \in Procs |-> EmptyMap]
    /\ got = [p \in Procs |-> NoResult]
    /\ list = [p \in Procs |-> NoList]
    /\ wk = ReadyWorker
    /\ events = 0
    /\ invalid = NoCall
    /\ subs = [u \in Uids |-> {}]
    /\ fresh = [p \in Procs |-> {}]
    /\ tick = [p \in Procs |-> NoMarks]
    /\ rej = NoRejects
    /\ removed = [u \in Uids |-> ""]

NextReaper ==
    \/ \E p \in Procs : ClearList(p)
    \/ \E p \in Procs, u \in Uids : ClearSkip(p, u)
    \/ \E p \in Procs, u \in Uids : ClearOnce(p, u)
    \/ \E p \in Procs, u \in Uids : ClearGet(p, u)
    \/ \E p \in Procs, u \in Uids : ClearGetFails(p, u)
    \/ \E p \in Procs : ClearCron(p)
    \/ \E p \in Procs : ClearDone(p)
    \/ \E t \in ReaperTimes : Elapse(t)

SpecReaper == InitReaper /\ [][NextReaper]_vars

----------------------------------------------------------------------------
(* The scheduler: registrations that pass validation, Remove, the scan
   ticks of the replicas, the dispatcher, and time *)

Next ==
    \/ \E u \in SchedUids, e \in SchedExprs, pl \in Payloads : Cron(u, e, pl)
    \/ \E u \in SchedUids, e \in SchedExprs : CronSaveFails(u, e)
    \/ \E p \in Procs, u \in SchedUids : RemoveCall(p, u)
    \/ \E p \in Procs : RemoveLock(p)
    \/ \E p \in Procs : RemoveHDel(p)
    \/ \E p \in Procs : RemoveDeleteTask(p)
    \/ \E p \in Procs : RemoveUnlock(p)
    \/ \E p \in Procs : ScanLock(p)
    \/ \E p \in Procs : ScanLoad(p)
    \/ \E p \in Procs, u \in Uids : ScanEnqueue(p, u)
    \/ \E p \in Procs, u \in Uids : ScanEnqueueFails(p, u)
    \/ \E p \in Procs : ScanExec(p)
    \/ \E p \in Procs : ScanExecFails(p)
    \/ \E p \in Procs : ScanUnlock(p)
    \/ \E p \in Procs, u \in Uids : ProcessTask(p, u)
    \/ \E p \in Procs : ProcessedLock(p)
    \/ \E p \in Procs : ProcessedGet(p)
    \/ \E p \in Procs : ProcessedGetFails(p)
    \/ \E p \in Procs : ProcessedSet(p)
    \/ \E p \in Procs : ProcessedUnlock(p)
    \/ \E p \in Procs, f \in BOOLEAN : ProcessTaskReturns(p, f)
    \/ \E u \in Uids : Expire(u)
    \/ Tick

Spec == Init /\ [][Next]_vars

----------------------------------------------------------------------------
(* The registration API with every kind of argument, valid or not, next to
   the scan ticks, Remove and the dispatcher, at one instant *)

NextApi ==
    \/ \E u \in SchedUids \cup {""}, e \in Exprs, pl \in Payloads : Cron(u, e, pl)
    \/ \E u \in SchedUids \cup {""}, pl \in Payloads, d \in {0, 1} : Once(u, pl, d)
    \/ \E p \in Procs, u \in SchedUids : RemoveCall(p, u)
    \/ \E p \in Procs : RemoveLock(p)
    \/ \E p \in Procs : RemoveHDel(p)
    \/ \E p \in Procs : RemoveDeleteTask(p)
    \/ \E p \in Procs : RemoveUnlock(p)
    \/ \E p \in Procs : ScanLock(p)
    \/ \E p \in Procs : ScanLoad(p)
    \/ \E p \in Procs, u \in Uids : ScanEnqueue(p, u)
    \/ \E p \in Procs : ScanExec(p)
    \/ \E p \in Procs : ScanUnlock(p)
    \/ \E p \in Procs, u \in Uids : ProcessTask(p, u)
    \/ \E p \in Procs : ProcessedLock(p)
    \/ \E p \in Procs : ProcessedGet(p)
    \/ \E p \in Procs : ProcessedSet(p)
    \/ \E p \in Procs : ProcessedUnlock(p)
    \/ \E p \in Procs, f \in BOOLEAN : ProcessTaskReturns(p, f)

SpecApi == Init /\ [][NextApi]_vars

----------------------------------------------------------------------------
(* New: the construction of a worker, the goroutine it starts for the asynq
   server, and the first use of a worker whose construction failed *)

\* asynq.ParseRedisURI fails
UriInvalid(uri) == uri = "bad"

\* tk.Error after the checks of the redis URI
NewError(uri) ==
    IF uri = "" THEN "ErrRedisNil"
    ELSE IF UriInvalid(uri) THEN "ErrRedisInvalid"
    ELSE ""

\* the checks of the redis URI: New returns the worker with Error set, or
\* goes on to build the clients
NewCheck ==
    /\ wk.at = "new"
    /\ wk' = [wk EXCEPT !.Error = NewError(wk.uri),
                        !.at = IF NewError(wk.uri) # "" THEN "returned"
                               ELSE "spawn"]
    /\ UNCHANGED <<now, store, queue, lock, list, procVars, events, scanVars,
                   histVars>>

\* go func() { var h periodTaskHandler; h.tk = *tk; srv.Run(h) }()
NewSpawn ==
    /\ wk.at = "spawn"
    /\ wk' = [wk EXCEPT !.at = "assign"]
    /\ UNCHANGED <<now, store, queue, lock, list, procVars, events, scanVars,
                   histVars>>

\* the next of the assignments tk.ops = *ops ... tk.inspector = inspector;
\* after the last one New starts the loops and returns
NewAssign ==
    /\ wk.at = "assign"
    /\ LET k == Cardinality(wk.set) + 1 IN
       wk' = [wk EXCEPT !.set = @ \cup {WorkerFields[k]},
                           !.at = IF k = Len(WorkerFields) THEN "returned"
                                  ELSE "assign"]
    /\ UNCHANGED <<now, store, queue, lock, list, procVars, events, scanVars,
                   histVars>>

\* h.tk = *tk in the new goroutine: an unsynchronized read of the fields New
\* is assigning, which sees each assigned field or its zero value
HandlerCopy(seen) ==
    /\ wk.at \in {"assign", "returned"}
    /\ wk.Error = ""
    /\ ~wk.copied
    /\ seen \subseteq wk.set
    /\ wk' = [wk EXCEPT !.copied = TRUE, !.htk = seen]
    /\ UNCHANGED <<now, store, queue, lock, list, procVars, events, scanVars,
                   histVars>>

\* what ProcessTask does on the copy: with no lock or no redis client
\* processed dereferences nil, with no ops there is no handler and no key
ServeOutcome(copy) ==
    IF "lock" \notin copy \/ "redis" \notin copy THEN "panic"
    ELSE IF "ops" \notin copy THEN "no handler"
    ELSE "ok"

\* the server of the new worker hands a due task to its handler
Serve(p, u) ==
    /\ wk.at # "new"
    /\ wk.copied
    /\ wk.out = ""
    /\ pc[p] = "idle"
    /\ queue[u].state \in {"scheduled", "retry"}
    /\ now >= queue[u].at
    /\ wk' = [wk EXCEPT !.out = ServeOutcome(wk.htk)]
    /\ queue' = [queue EXCEPT ![u].state = "active"]
    /\ pc' = [pc EXCEPT ![p] = IF ServeOutcome(wk.htk) = "ok" THEN "pt_lock"
                                ELSE @]
    /\ arg' = [arg EXCEPT ![p] = IF ServeOutcome(wk.htk) = "ok" THEN u ELSE @]
    /\ UNCHANGED <<now, store, lock, list, got, events, scanVars, histVars>>

\* what a call of Cron on worker w ends with: the error it returns, "" for
\* nil, or "panic" when it calls a method of the nil redis client
CronOn(w, uid, expr) ==
    IF CronCheck(uid, expr) # "" THEN CronCheck(uid, expr)
    ELSE IF "redis" \notin w.set THEN "panic"
    ELSE ""

\* ... of Once: the nil asynq client
OnceOn(w, uid) ==
    IF OnceCheck(uid) # "" THEN OnceCheck(uid)
    ELSE IF "client" \notin w.set THEN "panic"
    ELSE ""

\* ... of Remove: the nil lock
RemoveOn(w, uid) == IF "lock" \notin w.set THEN "panic" ELSE ""

\* the first use of a worker that New returned with Error set
UseCron(uid, expr) ==
    /\ wk.at = "returned"
    /\ wk.Error # ""
    /\ wk.out = ""
    /\ wk' = [wk EXCEPT !.out = CronOn(wk, uid, expr)]
    /\ UNCHANGED <<now, store, queue, lock, list, procVars, events, scanVars,
                   histVars>>

UseOnce(uid) ==
    /\ wk.at = "returned"
    /\ wk.Error # ""
    /\ wk.out = ""
    /\ wk' = [wk EXCEPT !.out = OnceOn(wk, uid)]
    /\ UNCHANGED <<now, store, queue, lock, list, procVars, events, scanVars,
                   histVars>>

UseRemove(uid) ==
    /\ wk.at = "returned"
    /\ wk.Error # ""
    /\ wk.out = ""
    /\ wk' = [wk EXCEPT !.out = RemoveOn(wk, uid)]
    /\ UNCHANGED <<now, store, queue, lock, list, procVars, events, scanVars,
                   histVars>>

\* a worker is constructed in a fleet whose queue may hold a due task
InitNew ==
    /\ wk \in {[uri |-> uri, Error |-> "", at |-> "new", set |-> {},
                copied |-> FALSE, htk |-> {}, out |-> ""] : uri \in RedisUris}
    /\ now = StartTime
    /\ store = EmptyMap
    /\ queue \in {[u \in Uids |-> IF u \in due THEN OnceTask(pl, 0) ELSE NoTask] :
                     due \in SUBSET SchedUids, pl \in Payloads}
    /\ lock = FreeLock
    /\ pc = [p \in Procs |-> "idle"]
    /\ arg = [p \in Procs |-> ""]
    /\ m = [p \in Procs |-> EmptyMap]
    /\ todo = [p \in Procs |-> {}]
    /\ pipe = [p \in Procs |-> EmptyMap]
    /\ got = [p \in Procs |-> NoResult]
    /\ list = [p \in Procs |-> NoList]
    /\ events = 0
    /\ invalid = NoCall
    /\ subs = [u \in Uids |-> {}]
    /\ fresh = [p \in Procs |-> {}]
    /\ tick = [p \in Procs |-> NoMarks]
    /\ rej = NoRejects
    /\ removed = [u \in Uids |-> ""]

NextNew ==
    \/ NewCheck
    \/ NewSpawn
    \/ NewAssign
    \/ \E seen \in SUBSET AllFields : HandlerCopy(seen)
    \/ \E p \in Procs, u \in Uids : Serve(p, u)
    \/ \E p \in Procs : ProcessedLock(p)
    \/ \E p \in Procs : ProcessedGet(p)
    \/ \E p \in Procs : ProcessedSet(p)
    \/ \E p \in Procs : ProcessedUnlock(p)
    \/ \E p \in Procs, f \in BOOLEAN : ProcessTaskReturns(p, f)
    \/ \E u \in SchedUids, e \in SchedExprs : UseCron(u, e)
    \/ \E u \in SchedUids : UseOnce(u)
    \/ \E u \in SchedUids : UseRemove(u)

SpecNew == InitNew /\ [][NextNew]_vars

----------------------------------------------------------------------------
(* Scan ticks over records of every cadence *)

\* the records Cron would have written at StartTime
ScanRecords(u) ==
    {String(CronTask(u, e, pl, ExprNext(e, StartTime))) :
        e \in ValidExprs, pl \in Payloads}

InitRetention ==
    /\ now = StartTime
    /\ store \in {f \in [Uids -> UNION {ScanRecords(u) : u \in Uids} \cup {Nil}] :
                    \A u \in Uids : f[u] = Nil \/ f[u] \in ScanRecords(u)}
    /\ queue = [u \in Uids |-> NoTask]
    /\ lock = FreeLock
    /\ pc = [p \in Procs |-> "idle"]
    /\ arg = [p \in Procs |-> ""]
    /\ m = [p \in Procs |-> EmptyMap]
    /\ todo = [p \in Procs |-> {}]
    /\ pipe = [p \in Procs |-> EmptyMap]
    /\ got = [p \in Procs |-> NoResult]
    /\ list = [p \in Procs |-> NoList]
    /\ wk = ReadyWorker
    /\ events = 0
    /\ invalid = NoCall
    /\ subs = [u \in Uids |-> {}]
    /\ fresh = [p \in Procs |-> {}]
    /\ tick = [p \in Procs |-> NoMarks]
    /\ rej = NoRejects
    /\ removed = [u \in Uids |-> ""]

NextRetention ==
    \/ \E p \in Procs : ScanLock(p)
    \/ \E p \in Procs : ScanLoad(p)
    \/ \E p \in Procs, u \in Uids : ScanEnqueue(p, u)
    \/ \E p \in Procs : ScanExec(p)
    \/ \E p \in Procs : ScanUnlock(p)

SpecRetention == InitRetention /\ [][NextRetention]_vars

----------------------------------------------------------------------------
(* Steps of a scan tick, as the properties below observe them *)

\* goroutine p's scan makes its submission of map entry u in this step
Attempts(p, u) == tick[p][u] = "" /\ tick'[p][u] # ""

\* ... and the queue accepts it
Submits(p, u) == tick[p][u] = "" /\ tick'[p][u] = "ok"

\* the processAt of the submission made in this step
AttemptedAt(p, u) == IF tick'[p][u] = "ok" THEN queue'[u].at ELSE rej'[u]

\* goroutine p's scan ends its loop in this step: the batched write ran
Flushes(p) == pc[p] = "scan_loop" /\ pc'[p] = "scan_unlock"

\* ... and did not fail
FlushesOk(p) == Flushes(p) /\ events' = events

\* goroutine p is between a successful Lock and its Unlock
InCritical(p) ==
    pc[p] \in ScanPcs \cup {"rm_hdel", "rm_del", "rm_unlock",
                            "pt_get", "pt_set", "pt_unlock"}

----------------------------------------------------------------------------
\* the lock serializes: at most one goroutine is inside a critical section
Serialized == Cardinality({p \in Procs : InCritical(p)}) <= 1

(* C1: two replicas whose scan ticks run concurrently never both get the
   same occurrence (uid, processAt) of a task accepted by the queue. *)
C1_NoDuplicateAcrossReplicas ==
    [][\A p \in Procs, u \in Uids :
          Submits(p, u) => <<u, queue'[u].at>> \notin fresh[p]]_vars

(* C2: every occurrence (uid, value of next it targets) is accepted by the
   queue at most once over all scan ticks of all replicas, also when a
   submission or the batched Store write fails.  Stated for the steps taken
   while the lock serializes, so that it does not rest on C3. *)
C2_ExactlyOncePerOccurrence ==
    [][\A p \in Procs, u \in Uids :
          (Serialized /\ Submits(p, u)) => queue'[u].at \notin subs[u]]_vars

(* C3: at most one goroutine is inside a lock-guarded critical section
   (scan tick, Remove, processed-count update) in every reachable state. *)
C3_MutualExclusion == Serialized

(* C4: a scan tick whose submission for a record was rejected by the queue
   leaves that record as stored, and a scan tick that then reads the record
   submits the same occurrence (same uid, same processAt) again. *)
C4_RejectedIsRetried ==
    [][\A p \in Procs, u \in Uids :
          /\ (Flushes(p) /\ tick[p][u] = "rej") => store'[u] = store[u]
          /\ (Attempts(p, u) /\ rej[u] # 0 /\ NextOf(m[p][u]) = NextOf(store[u]))
                => AttemptedAt(p, u) = rej[u]]_vars

\* a rejected occurrence was submitted again by a later tick, and accepted
C4_Witness ==
    \E p \in Procs, u \in Uids :
        /\ rej[u] # 0
        /\ NextOf(store[u]) = rej[u]
        /\ tick[p][u] = "ok"
        /\ queue[u].at = rej[u]

(* C5: a scan tick that holds the lock makes one submission for every
   registered record it read; an accepted submission is scheduled at the
   record's next as read and carries its name and payload; and the batched
   write leaves the stored next at the occurrence of the expression that
   follows the previous next, strictly later, all other fields as they were. *)
C5_ScanSubmitsAndAdvances ==
    [][\A p \in Procs, u \in Uids :
          LET item == Decode(m[p][u]) IN
          /\ Submits(p, u) =>
                /\ queue'[u].state = "scheduled"
                /\ queue'[u].at = item.next
                /\ queue'[u].payload = item.payload
                /\ queue'[u].type = item.name
          /\ (Flushes(p) /\ m[p][u] # Nil) => tick[p][u] # ""
          /\ (FlushesOk(p) /\ tick[p][u] = "ok") =>
                /\ NextOf(store'[u]) > item.next
                /\ NextOf(store'[u]) = ExprNext(item.expr, item.next)
                /\ Decode(store'[u]) = [item EXCEPT !.next = NextOf(store'[u])]]_vars

\* the tick after a registration got its submission accepted and wrote next
C5_Witness ==
    \E p \in Procs, u \in Uids :
        /\ pc[p] = "scan_unlock"
        /\ tick[p][u] = "ok"
        /\ queue[u].state = "scheduled"
        /\ queue[u].payload \in Payloads
        /\ NextOf(store[u]) = ExprNext(Decode(m[p][u]).expr, queue[u].at)

(* C6: the stored next of a uid never decreases, and it changes only in a
   scan tick whose submission for that uid succeeded. *)
C6_NextOnlyAdvances ==
    [][\A u \in Uids :
          (store[u] # Nil /\ store'[u] # Nil) =>
              /\ NextOf(store'[u]) >= NextOf(store[u])
              /\ NextOf(store'[u]) # NextOf(store[u]) =>
                    \E p \in Procs : FlushesOk(p) /\ tick[p][u] = "ok"]_vars

(* C7: the stored processed counter of an existing record never decreases,
   and every processed-count update adds one to the counter as stored.
   Stated for the steps taken while the lock serializes, so that it does not
   rest on C3. *)
C7_ProcessedCounts ==
    [][\A u \in Uids :
          (Serialized /\ store[u] # Nil /\ store'[u] # Nil) =>
              /\ Decode(store'[u]).processed >= Decode(store[u]).processed
              /\ \A p \in Procs :
                    (pc[p] = "pt_set" /\ pc'[p] = "pt_unlock" /\ arg[p] = u) =>
                        Decode(store'[u]).processed = Decode(store[u]).processed + 1]_vars

(* C8: once Remove(uid) has returned, and until uid is registered again, the
   Store holds no record for uid and no scan submission for uid is accepted. *)
C8_RemovedStaysRemoved ==
    [][\A u \in Uids :
          removed'[u] = "returned" =>
              /\ store'[u] = Nil
              /\ \A p \in Procs : ~Submits(p, u)]_vars

(* C9: a Cron registration with an empty uid or an unparseable expression,
   and a Once registration with an empty uid, return the validation error
   and leave the Store and the queue as they were. *)
C9_InvalidRegistrationRefused ==
    [][invalid' # invalid =>
          /\ invalid'.err = IF invalid'.uid = "" THEN "ErrUuidNil"
                            ELSE "ErrExprInvalid"
          /\ store' = store
          /\ queue' = queue]_vars

\* an unparseable expression was refused for a uid that is registered and queued
C9_Witness ==
    \E u \in Uids :
        /\ invalid.op = "Cron"
        /\ invalid.uid = u
        /\ invalid.err = "ErrExprInvalid"
        /\ store[u] # Nil
        /\ queue[u].state = "scheduled"

----------------------------------------------------------------------------
(* Steps of a reaper run, as the properties below observe them *)

\* goroutine p's run settles item u of its list in this step
Decides(p, u) == u \in todo[p] /\ u \notin todo'[p]

\* the item's retried count has reached its maxRetry
Exhausted(item) == item.state = "archived" /\ item.retried >= item.maxRetry

\* the record lookup of the run for a period task did not fail
LookedUp(p, u) == IsCron(list[p][u]) => (pc[p] = "ca_flag" /\ got[p].e # "err")

\* seconds the run waits after the last failure of item u before deleting it;
\* -1 when it never deletes it
WaitSecs(p, u) ==
    IF ~IsCron(list[p][u]) THEN 300
    ELSE IF got[p].e = "nil" THEN -1
    ELSE LET r == Decode(got[p].t)
             gap == ExprNext(r.expr, r.next) - r.next
         IN  IF gap <= 60 THEN 300
             ELSE IF gap <= 600 THEN 1800
             ELSE IF gap <= 3600 THEN 7200
             ELSE 18000

(* C10 as stated: when a reaper run ends, every archived job on its list
   whose retried count has reached maxRetry has been deleted from the queue,
   whatever the time since its last failure, its kind, and whether a record
   exists for it. *)
C10_ExhaustedDeletedInRun ==
    [][\A p \in Procs :
          (pc[p] = "ca_loop" /\ pc'[p] = "idle") =>
              \A u \in Uids : Exhausted(list[p][u]) => queue[u].state = "none"]_vars

(* C10: a reaper run deletes a listed archived job whose retried count has
   reached maxRetry, and that is still archived, exactly when the time since
   its last failure exceeds its waiting time: 5 minutes for a one-off job;
   for a periodic job whose record was read, 5 minutes, 30 minutes, 2 hours
   or 5 hours as the gap between its occurrences is at most 60, at most 600,
   at most 3600 seconds, or more; a periodic job without a record is kept. *)
C10_ExhaustedDeletedAfterGrace ==
    [][\A p \in Procs, u \in Uids :
          (/\ Decides(p, u)
           /\ Exhausted(list[p][u])
           /\ LookedUp(p, u)
           /\ queue[u].state = "archived") =>
              (queue'[u].state = "none" <=>
                  /\ WaitSecs(p, u) >= 0
                  /\ now - list[p][u].lastFailedAt > WaitSecs(p, u))]_vars

\* a run has settled its list: it deleted one exhausted job and kept another
C10_Witness ==
    \E p \in Procs, u, v \in Uids :
        /\ pc[p] = "ca_loop"
        /\ todo[p] = {}
        /\ Exhausted(list[p][u])
        /\ queue[u].state = "none"
        /\ Exhausted(list[p][v])
        /\ queue[v].state = "archived"

----------------------------------------------------------------------------
\* goroutine p's run deletes the archived job u from the queue in this step
ReaperDeletes(p, u) ==
    Decides(p, u) /\ queue[u].state = "archived" /\ queue'[u].state = "none"

\* the job on p's list still has retries left
Retryable(item) == item.state = "archived" /\ item.retried < item.maxRetry

\* seconds between two occurrences of the record stored for u
CadenceGap(u) ==
    LET r == Decode(store[u]) IN ExprNext(r.expr, r.next) - r.next

(* C11: the reaper deletes an archived job whose retries are not exhausted
   only after its grace: a one-off job only when at least 5 minutes have
   passed since its last failure, a periodic job whose occurrences are 30
   seconds apart only when at least 5 minutes, and one whose occurrences are
   3600 seconds apart only when at least 5 hours have passed. *)
C11_NoEarlyDeletion ==
    [][\A p \in Procs, u \in Uids :
          (ReaperDeletes(p, u) /\ Retryable(list[p][u])) =>
              LET elapsed == now - list[p][u].lastFailedAt IN
              /\ ~IsCron(list[p][u]) => elapsed >= 300
              /\ (IsCron(list[p][u]) /\ store[u] # Nil /\ CadenceGap(u) = 30)
                    => elapsed >= 300
              /\ (IsCron(list[p][u]) /\ store[u] # Nil /\ CadenceGap(u) = 3600)
                    => elapsed >= 18000]_vars

\* a run has settled its list more than 2 hours after the failure of an hourly
\* job that has retries left, and the job is still archived
C11_Witness ==
    \E p \in Procs, u \in Uids :
        /\ pc[p] = "ca_loop"
        /\ todo[p] = {}
        /\ Retryable(list[p][u])
        /\ IsCron(list[p][u])
        /\ store[u] # Nil
        /\ CadenceGap(u) = 3600
        /\ now - list[p][u].lastFailedAt > 7200
        /\ queue[u].state = "archived"

----------------------------------------------------------------------------
\* New returned the worker with a configuration error recorded
Misconfigured == wk.at = "returned" /\ wk.Error # ""

(* C12: construction with a missing or invalid store address returns a
   worker that records the configuration error, and the first use of that
   worker (Cron, Once or Remove) returns the recorded error to the caller
   and leaves the Store, the Lock and the queue as they were. *)
C12_ConfigErrorReturnedOnUse ==
    [][/\ (wk.at = "new" /\ wk.uri \in {"", "bad"}) =>
              (wk'.at = "returned" /\ wk'.Error # "")
       /\ (Misconfigured /\ wk'.out # wk.out) =>
              /\ wk'.out = wk.Error
              /\ store' = store
              /\ lock' = lock
              /\ queue' = queue]_vars

----------------------------------------------------------------------------
\* min(diff / 3, 600)
CappedThird(diff) == IF diff \div 3 < 600 THEN diff \div 3 ELSE 600

(* C13: the submission a scan tick makes for a record carries no retention
   when diff, the newly computed next occurrence minus the record's next, is
   at most 10 seconds, and the retention min(diff / 3, 600) seconds, by
   integer division, when diff is above 10. *)
C13_RetentionIsCappedThird ==
    [][\A p \in Procs, u \in Uids :
          Submits(p, u) =>
              LET item == Decode(m[p][u])
                  diff == ExprNext(item.expr, item.next) - item.next
              IN  queue'[u].retention =
                      IF diff <= 10 THEN 0 ELSE CappedThird(diff)]_vars

----------------------------------------------------------------------------
\* the grace of the job u on p's list as the tiers give it, from the record
\* stored for u; -1 for a periodic job without a record
GraceSecs(p, u) ==
    IF ~IsCron(list[p][u]) THEN 300
    ELSE IF store[u] = Nil THEN -1
    ELSE IF CadenceGap(u) <= 60 THEN 300
    ELSE IF CadenceGap(u) <= 600 THEN 1800
    ELSE IF CadenceGap(u) <= 3600 THEN 7200
    ELSE 18000

(* C14 as stated: a reaper run deletes a listed archived job whose retried
   count is below maxRetry exactly when the time since its last failure is at
   least its grace: 5 minutes for a one-off job; 5 minutes, 30 minutes,
   2 hours or 5 hours by the tier of diff for a periodic job with a record;
   a periodic job without a record is not deleted. *)
C14_RetryableDeletedAtGrace ==
    [][\A p \in Procs, u \in Uids :
          (Decides(p, u) /\ Retryable(list[p][u]) /\ queue[u].state = "archived")
              => (queue'[u].state = "none" <=>
                     /\ GraceSecs(p, u) >= 0
                     /\ now - list[p][u].lastFailedAt >= GraceSecs(p, u))]_vars

(* C14: a reaper run leaves in the queue every listed archived job that has
   failed and whose retried count is below maxRetry, whatever the time since
   its last failure, its kind and its record. *)
C14_RetryableIsKept ==
    [][\A p \in Procs, u \in Uids :
          (Decides(p, u) /\ Retryable(list[p][u]) /\ list[p][u].lastFailedAt # 0)
              => queue'[u] = queue[u]]_vars

\* a run has settled its list more than 5 minutes after the failure of a
\* one-off job that has retries left, and the job is still archived
C14_Witness ==
    \E p \in Procs, u \in Uids :
        /\ pc[p] = "ca_loop"
        /\ todo[p] = {}
        /\ Retryable(list[p][u])
        /\ ~IsCron(list[p][u])
        /\ now - list[p][u].lastFailedAt > 300
        /\ queue[u] = list[p][u]

----------------------------------------------------------------------------
\* goroutine p's processed(u) passes its write in this step
Counts(p, u) == pc[p] = "pt_set" /\ pc'[p] = "pt_unlock" /\ arg[p] = u

\* a record of u exists for the update of goroutine p: the one its read
\* returned or, when the read failed, the one in the Store
Found(p, u) == IF got[p].e = "err" THEN store[u] # Nil ELSE got[p].t # Nil

(* C15: every processed-count update of the Dispatcher, made while the lock
   serializes, adds exactly 1 to the stored processed of the job's uid and
   changes no other field of that record; when no record exists for the uid
   the Store is left as it was and no record is created. *)
C15_DispatcherOnlyCounts ==
    [][\A p \in Procs, u \in Uids :
          (Serialized /\ Counts(p, u)) =>
              IF Found(p, u)
              THEN /\ store[u] # Nil
                   /\ Decode(store'[u]) =
                         [Decode(store[u]) EXCEPT !.processed = @ + 1]
                   /\ \A v \in Uids \ {u} : store'[v] = store[v]
              ELSE store' = store]_vars

----------------------------------------------------------------------------
\* goroutine p leaves its critical section in this step: its Unlock runs
Releases(p) == InCritical(p) /\ ~InCritical(p)'

\* the lock key exists and its lease has not run out
LockLive == lock.held /\ now < lock.until

(* C16: when a scan tick, a Remove or a processed-count update that took
   the lock finishes, the lock is released, and the release removes no lock
   that a different goroutine holds at that moment. *)
C16_ReleaseOwnLockOnly ==
    [][\A p \in Procs :
          Releases(p) =>
              /\ ~lock'.held
              /\ LockLive => lock.by = p]_vars

----------------------------------------------------------------------------
(* Progress of the blocking callers.  Remove and processed poll Lock until
   it succeeds; the scan ticks of the replicas take the lock whenever they
   find it free; a lock holder may crash inside its critical section, and
   then only the lease frees the lock. *)

\* the goroutine of p dies inside its critical section without its Unlock;
\* the clock of the model can still reach the end of the lease it leaves
Crash(p) ==
    /\ InCritical(p)
    /\ (lock.held /\ lock.by = p) => lock.until <= MaxTime
    /\ pc' = [pc EXCEPT ![p] = "crashed"]
    /\ UNCHANGED <<wk, now, list, store, queue, lock, arg, got, events, scanVars, histVars>>

\* a fleet with a registered job, a due task, both or neither
InitLive ==
    /\ now = StartTime
    /\ store \in {[u \in Uids |-> IF u \in reg
                                  THEN String(CronTask(u, e, pl, ExprNext(e, StartTime)))
                                  ELSE Nil] :
                     reg \in SUBSET SchedUids, e \in {"*/5 * * * * *"}, pl \in Payloads}
    /\ queue \in {[u \in Uids |-> IF u \in due THEN OnceTask(pl, 0) ELSE NoTask] :
                     due \in SUBSET SchedUids, pl \in Payloads}
    /\ lock = FreeLock
    /\ pc = [p \in Procs |-> "idle"]
    /\ arg = [p \in Procs |-> ""]
    /\ m = [p \in Procs |-> EmptyMap]
    /\ todo = [p \in Procs |-> {}]
    /\ pipe = [p \in Procs |-> EmptyMap]
    /\ got = [p \in Procs |-> NoResult]
    /\ list = [p \in Procs |-> NoList]
    /\ wk = ReadyWorker
    /\ events = 0
    /\ invalid = NoCall
    /\ subs = [u \in Uids |-> {}]
    /\ fresh = [p \in Procs |-> {}]
    /\ tick = [p \in Procs |-> NoMarks]
    /\ rej = NoRejects
    /\ removed = [u \in Uids |-> ""]

\* the steps goroutine p takes on its own once its call holds the lock
Runs(p) ==
    \/ RemoveHDel(p)
    \/ RemoveDeleteTask(p)
    \/ RemoveUnlock(p)
    \/ ScanLoad(p)
    \/ \E u \in Uids : ScanEnqueue(p, u)
    \/ ScanExec(p)
    \/ ScanUnlock(p)
    \/ ProcessedGet(p)
    \/ ProcessedSet(p)
    \/ ProcessedUnlock(p)
    \/ \E f \in BOOLEAN : ProcessTaskReturns(p, f)

\* the goroutine whose blocking calls are followed, and the goroutines of
\* the other replicas, which scan and may crash
Callers == {"p1"}
Scanners == Procs \ Callers

NextLive ==
    \/ \E p \in Callers, u \in SchedUids : RemoveCall(p, u)
    \/ \E p \in Callers : RemoveLock(p)
    \/ \E p \in Scanners : ScanLock(p)
    \/ \E p \in Callers, u \in Uids : ProcessTask(p, u)
    \/ \E p \in Callers : ProcessedLock(p)
    \/ \E p \in Procs : Runs(p)
    \/ \E p \in Scanners : Crash(p)
    \/ Tick

\* a running goroutine keeps running and the clock keeps going; the polling
\* loop of Lock has no timeout, so a lock that is free again and again is
\* taken by the caller that polls for it
Fairness ==
    /\ WF_vars(Tick)
    /\ \A p \in Procs : WF_vars(Runs(p))
    /\ \A p \in Procs : SF_vars(RemoveLock(p))
    /\ \A p \in Procs : SF_vars(ProcessedLock(p))

SpecLive == InitLive /\ [][NextLive]_vars /\ Fairness

\* goroutine p is polling for the lock in Remove or in processed
Polls(p) == pc[p] \in {"rm_lock", "pt_lock"}

\* goroutine p has just taken the lock in Remove or in processed
Acquired(p) == pc[p] \in {"rm_hdel", "pt_get"}

\* the call of goroutine p is over: Remove returned, or processed returned
\* to ProcessTask
Over(p) == pc[p] \in {"idle", "pt_ret"}

(* C17: with the fairness above, a Remove or a processed-count update that
   polls for the lock eventually takes it, and its call eventually ends,
   while the replicas keep scanning and after a holder crashed without
   releasing. *)
C17_BlockingCallersProgress ==
    \A p \in Callers : (Polls(p) ~> Acquired(p)) /\ (Polls(p) ~> Over(p))

\* a holder has crashed and another goroutine's blocking call holds the lock
C17_Witness ==
    \E p \in Scanners, q \in Callers :
        /\ pc[p] = "crashed"
        /\ pc[q] \in {"rm_unlock", "pt_unlock"}
        /\ lock.held /\ lock.by = q

----------------------------------------------------------------------------
(* C18: with the critical sections kept apart, a scan flush overwrites only
   the copy of a record that the tick itself loaded: no write made to the
   record between the load and the flush (a Cron registration of the uid in
   particular) is replaced by the tick's stale copy. *)
C18_FlushOverwritesOwnCopy ==
    [][\A p \in Procs, u \in Uids :
          (Serialized /\ FlushesOk(p) /\ pipe[p][u] # Nil) =>
              store[u] = m[p][u]]_vars

----------------------------------------------------------------------------
\* the HGet of goroutine p's processed failed with an error other than
\* redis.Nil
ReadFailed(p) == got[p].e = "err"

(* C19: when the read inside a processed-count update fails with an error
   other than not found, the update writes nothing: the Store is the same
   after the step that passes the write, and no blank record appears. *)
C19_FailedReadWritesNothing ==
    [][\A p \in Procs, u \in Uids :
          (Counts(p, u) /\ ReadFailed(p)) => store' = store]_vars

----------------------------------------------------------------------------
\* the handler of the new worker is given a fired job in this step
Serves == wk.copied /\ wk.out = "" /\ wk'.out # ""

(* C20: whenever the handler started by New is given a fired job, the copy
   of the worker it runs on holds every field New assigns (options with the
   handler or callback and the Store key, Store client, lock, queue client,
   inspector): the copy was not taken before the assignments. *)
C20_HandlerCopyIsComplete ==
    [][Serves => wk.htk = AllFields]_vars

====
